---------------------------- MODULE Spec2Model ----------------------------
(***************************************************************************)
(* A model of cube_processor.py: the CubeFile parser (load_from) and the   *)
(* analyzer queries over the parsed data.                                  *)
(*                                                                         *)
(* The input stream is supplied by the environment one readline() at a     *)
(* time; a line is the sequence of its whitespace-separated tokens.  A     *)
(* token is a record [k, v]: an integer literal ("int"), a literal with a  *)
(* decimal point ("float") or text that is no number ("bad").  The values  *)
(* are small integers, on which the float arithmetic of the program is     *)
(* exact.                                                                  *)
(***************************************************************************)
EXTENDS Integers, Sequences, FiniteSets, TLC

VARIABLES
    cube,     \* the attributes (__dict__) of the CubeFile object
    ref,      \* TRUE when the caller holds the object (the constructor returned)
    pc,       \* position inside load_from, "idle" between calls
    nAtoms,   \* load_from's local nAtoms
    parts,    \* load_from's local parts: the tokens of the line read last
    eof,      \* the input stream has reported its end
    ret       \* outcome of the last call: what it returned or raised

vars == <<cube, ref, pc, nAtoms, parts, eof, ret>>

---------------------------------------------------------------------------
(* Bounds of the model *)

\* longest data section, in tokens
MaxLen == 2

\* largest point count on an axis line
MaxCount == 1

---------------------------------------------------------------------------
(* Tokens and lines *)

IntTok(v) == [k |-> "int", v |-> v]
FltTok(v) == [k |-> "float", v |-> v]
BadTok == [k |-> "bad", v |-> 0]

\* int(s) succeeds on an integer literal only; float(s) on any number
IsIntLit(t) == t.k = "int"
IsNum(t) == t.k \in {"int", "float"}

\* a line of n tokens: a first token, "1.0" fillers, a last token
MkLine(first, n, last) ==
    [j \in 1..n |-> IF j = 1 THEN first ELSE IF j = n THEN last ELSE FltTok(1)]

\* grid-definition lines: 3 to 6 tokens, the last one a number or not; a
\* negative, a non-integer, a zero and a positive atom count
GridLines ==
    {MkLine(IntTok(-1), n, l) : n \in 3..5, l \in {IntTok(2), BadTok}}
    \cup {MkLine(FltTok(-1), 4, FltTok(1))}
    \cup {MkLine(IntTok(a), n, l) : a \in 0..1, n \in 4..5, l \in {IntTok(2)}}
    \cup {MkLine(IntTok(0), n, FltTok(1)) : n \in {3, 6}}
    \cup {MkLine(IntTok(0), n, BadTok) : n \in 4..5}

AxisLines ==
    {MkLine(IntTok(c), n, FltTok(1)) : c \in 0..MaxCount, n \in 3..5}

AtomLines ==
    {MkLine(IntTok(1), n, FltTok(1)) : n \in 4..6}

DataTokens == {FltTok(-1), FltTok(1), FltTok(2), BadTok}

DataTexts == UNION {[1..n -> DataTokens] : n \in 0..MaxLen}

\* values a slot of an uninitialised np.ndarray may hold
Garbage == {0, 1}

CommentText == "comment"

Percents == {0, 50, 99, 100}

---------------------------------------------------------------------------
(* The object and the outcome of a call *)

NoAttrs == [a \in {} |-> 0]

SetAttrs(obj, new) == new @@ obj

NoRet ==
    [op |-> "", arg |-> 0, kind |-> "none", val |-> 0, exc |-> "", msg |-> "",
     line |-> 0, parts |-> <<>>, text |-> <<>>, atEnd |-> FALSE]

Returned(op, arg, val) ==
    [NoRet EXCEPT !.op = op, !.arg = arg, !.kind = "return", !.val = val]

Raised(op, arg, exc, msg, line) ==
    [NoRet EXCEPT !.op = op, !.arg = arg, !.kind = "raise", !.exc = exc,
                  !.msg = msg, !.line = line]

\* readline(): the next line of the stream, or the empty line at its end
ReadLine(lines) ==
    IF eof THEN {[toks |-> <<>>, end |-> TRUE]}
    ELSE {[toks |-> l, end |-> FALSE] : l \in lines} \cup {[toks |-> <<>>, end |-> TRUE]}

\* np.ndarray(shape=(3)) filled from parts[1..3] (0-based) until float() raises
VectorOk(toks) == \A j \in 1..3 : IsNum(toks[j + 1])

FillVector(toks, g) ==
    [j \in 1..3 |-> IF \A m \in 1..j : IsNum(toks[m + 1]) THEN toks[j + 1].v ELSE g[j]]

\* what the slots of a fresh np.ndarray(shape=(3)) may hold; a slot that is
\* assigned afterwards does not keep it
Uninitialised(toks) ==
    IF Len(toks) >= 4 /\ ~VectorOk(toks) THEN [1..3 -> Garbage]
    ELSE {[j \in 1..3 |-> 0]}

\* the operation that is running: the constructor until the object is held
RunningOp == IF ref THEN "load_from" ELSE "CubeFile"

\* an exception leaves load_from: the stream is closed, and an object under
\* construction is dropped with the exception
Fail(obj, err, line, toks, text, end) ==
    /\ cube' = IF ref THEN obj ELSE NoAttrs
    /\ ret' = [Raised(RunningOp, 0, err.exc, err.msg, line) EXCEPT
                  !.parts = toks, !.text = text, !.atEnd = end]
    /\ pc' = "idle"
    /\ nAtoms' = 0
    /\ parts' = <<>>
    /\ eof' = FALSE
    /\ UNCHANGED ref

---------------------------------------------------------------------------
(* load_from *)

\* lines 23-28: open the file and read the two comment lines
OpenAndReadComments ==
    \E r1 \in ReadLine({<<CommentText>>}) :
        \E r2 \in {r \in ReadLine({<<CommentText>>}) : r1.end => r.end} :
            /\ cube' = SetAttrs(cube, [comment1 |-> r1.toks, comment2 |-> r2.toks])
            /\ eof' = r2.end
            /\ pc' = "grid"
            /\ nAtoms' = 0
            /\ parts' = <<>>
            /\ ret' = NoRet

\* CubeFile(file_path): a new object, parsed by load_from
Construct ==
    /\ pc = "idle"
    /\ ~ref
    /\ OpenAndReadComments
    /\ UNCHANGED ref

\* load_from called on the object the caller holds
LoadFrom ==
    /\ pc = "idle"
    /\ ref
    /\ OpenAndReadComments
    /\ UNCHANGED ref

\* what a failing statement raises: the exception's kind and its message
AssertionError(msg) == [exc |-> "AssertionError", msg |-> msg]

ValueError(msg) == [exc |-> "ValueError", msg |-> msg]

Failed(obj, err, line) ==
    [ok |-> FALSE, obj |-> obj, exc |-> err.exc, msg |-> err.msg, line |-> line]

Parsed(obj, line) ==
    [ok |-> TRUE, obj |-> obj, exc |-> "", msg |-> "", line |-> line]

\* line 32: assert len(parts) in [4,5]
AssertGridLen(toks) == Len(toks) \in {4, 5}

GridLenError == AssertionError("")

\* the check of line 35 left out
AssertNotDset_Off(toks) == TRUE

\* line 35: assert int(parts[0]) >= 0, "DSET_IDs not (yet) supported"
AssertNotDset(toks) == toks[1].v >= 0

DsetError == AssertionError("DSET_IDs not (yet) supported")

Abs(v) == IF v >= 0 THEN v ELSE -v

\* lines 31-41: {NATOMS (int)} {ORIGIN (3x float)} {NVAL (int)}?
ParseGridDef(obj, toks, g) ==
    IF ~AssertGridLen(toks) THEN Failed(obj, GridLenError, 32)
    ELSE IF ~IsIntLit(toks[1]) THEN Failed(obj, ValueError("int"), 34)
    ELSE IF ~AssertNotDset(toks) THEN Failed(obj, DsetError, 35)
    ELSE IF ~VectorOk(toks)
    THEN Failed(SetAttrs(obj, [origin |-> FillVector(toks, g)]), ValueError("float"), 39)
    ELSE IF Len(toks) > 4 /\ ~IsIntLit(toks[5])
    THEN Failed(SetAttrs(obj, [origin |-> FillVector(toks, g)]), ValueError("int"), 41)
    ELSE Parsed(SetAttrs(obj, [origin |-> FillVector(toks, g),
                               data_points_per_grid_point |->
                                   IF Len(toks) > 4 THEN toks[5].v ELSE 1]), 41)

ReadGridDef ==
    /\ pc = "grid"
    /\ \E r \in ReadLine(GridLines) : \E g \in Uninitialised(r.toks) :
        LET p == ParseGridDef(cube, r.toks, g) IN
        IF ~p.ok
        THEN Fail(p.obj, p, p.line, r.toks, <<>>, r.end)
        ELSE /\ cube' = p.obj
             /\ nAtoms' = Abs(r.toks[1].v)
             /\ parts' = r.toks
             /\ eof' = r.end
             /\ pc' = "xaxis"
             /\ UNCHANGED <<ref, ret>>

\* the check of lines 46, 53, 60 written with >= for ==
AssertAxisLen_AtLeast(toks) == Len(toks) >= 4

\* lines 46, 53, 60: assert len(parts) == 4
AssertAxisLen(toks) == Len(toks) = 4

AxisLenError == AssertionError("")

\* lines 45-50, 52-57, 59-64: {XAXIS (int) (3x float)}, and the same for y and z
ParseAxis(obj, toks, g, points, axis, line) ==
    IF ~AssertAxisLen(toks) THEN Failed(obj, AxisLenError, line + 1)
    ELSE IF ~IsIntLit(toks[1]) THEN Failed(obj, ValueError("int"), line + 2)
    ELSE IF ~VectorOk(toks)
    THEN Failed(SetAttrs(obj, (points :> toks[1].v) @@ (axis :> FillVector(toks, g))),
                ValueError("float"), line + 5)
    ELSE Parsed(SetAttrs(obj, (points :> toks[1].v) @@ (axis :> FillVector(toks, g))),
                line + 5)

ReadAxis(here, points, axis, line) ==
    /\ pc = here
    /\ \E r \in ReadLine(AxisLines) : \E g \in Uninitialised(r.toks) :
        LET p == ParseAxis(cube, r.toks, g, points, axis, line) IN
        IF ~p.ok
        THEN Fail(p.obj, p, p.line, r.toks, <<>>, r.end)
        ELSE /\ cube' = IF here = "zaxis" THEN SetAttrs(p.obj, [atoms |-> <<>>]) ELSE p.obj
             /\ parts' = r.toks
             /\ eof' = r.end
             /\ pc' = CASE here = "xaxis" -> "yaxis"
                        [] here = "yaxis" -> "zaxis"
                        [] OTHER -> IF nAtoms > 0 THEN "atoms" ELSE "data"
             /\ UNCHANGED <<ref, nAtoms, ret>>

ReadXAxis == ReadAxis("xaxis", "x_grid_points", "x_axis", 45)

ReadYAxis == ReadAxis("yaxis", "y_grid_points", "y_axis", 52)

\* the z axis, and line 68: self.atoms = []
ReadZAxis == ReadAxis("zaxis", "z_grid_points", "z_axis", 59)

\* line 72: assert len(parts) == 5
AssertAtomLen(toks) == Len(toks) = 5

AtomLenError == AssertionError("")

\* Atom.__init__
Atom(atomic_number, nuclear_charge, position) ==
    [atomic_number |-> atomic_number, nuclear_charge |-> nuclear_charge,
     position |-> position]

\* lines 71-75: {GEOM (int) (float) (3x float)}
ParseAtom(obj, toks) ==
    IF ~AssertAtomLen(toks) THEN Failed(obj, AtomLenError, 72)
    ELSE IF ~IsIntLit(toks[1]) THEN Failed(obj, ValueError("int"), 74)
    ELSE IF \E j \in 2..5 : ~IsNum(toks[j]) THEN Failed(obj, ValueError("float"), 74)
    ELSE Parsed(SetAttrs(obj, [atoms |-> Append(obj.atoms,
                    Atom(toks[1].v, toks[2].v, <<toks[3].v, toks[4].v, toks[5].v>>))]), 75)

\* one pass of the loop  for i in range(nAtoms)
ReadAtom ==
    /\ pc = "atoms"
    /\ \E r \in ReadLine(AtomLines) :
        LET p == ParseAtom(cube, r.toks) IN
        IF ~p.ok
        THEN Fail(p.obj, p, p.line, r.toks, <<>>, r.end)
        ELSE /\ cube' = p.obj
             /\ parts' = r.toks
             /\ eof' = r.end
             /\ pc' = IF Len(p.obj.atoms) < nAtoms THEN "atoms" ELSE "data"
             /\ UNCHANGED <<ref, nAtoms, ret>>

\* the tokens np.fromstring(text, dtype=float, sep=' ') converts: those before
\* the first token that is no number
RECURSIVE NumericPrefix(_)
NumericPrefix(text) ==
    IF text = <<>> \/ ~IsNum(Head(text)) THEN <<>>
    ELSE <<Head(text).v>> \o NumericPrefix(Tail(text))

AllNumeric(text) == \A j \in 1..Len(text) : IsNum(text[j])

\* np.fromstring on text with an unconvertible token either stops there with a
\* DeprecationWarning or raises ValueError, depending on the numpy release
FromString(text) ==
    {[ok |-> TRUE, data |-> NumericPrefix(text)]} \cup
    (IF AllNumeric(text) THEN {} ELSE {[ok |-> FALSE, data |-> <<>>]})

Product(obj) ==
    obj.x_grid_points * obj.y_grid_points * obj.z_grid_points
        * obj.data_points_per_grid_point

\* the check of line 89 written with >= for ==
AssertDataLen_AcceptsExtra(obj) == Len(obj.data) >= Product(obj)

\* line 89: assert len(self.data) == the product of the four counts
AssertDataLen(obj) == Len(obj.data) = Product(obj)

DataLenError == AssertionError("")

\* lines 87-89: read the rest of the stream as the data and check its length
ReadData ==
    /\ pc = "data"
    /\ \E text \in (IF eof THEN {<<>>} ELSE DataTexts) : \E f \in FromString(text) :
        IF ~f.ok
        THEN Fail(cube, ValueError("fromstring"), 87, parts, text, TRUE)
        ELSE LET obj == SetAttrs(cube, [data |-> f.data]) IN
             IF ~AssertDataLen(obj)
             THEN Fail(obj, DataLenError, 89, parts, text, TRUE)
             ELSE /\ cube' = obj
                  /\ ref' = TRUE
                  /\ ret' = [Returned(RunningOp, 0, 0) EXCEPT
                                !.line = 89, !.parts = parts, !.text = text]
                  /\ pc' = "idle"
                  /\ nAtoms' = 0
                  /\ parts' = <<>>
                  /\ eof' = FALSE

---------------------------------------------------------------------------
(* The analyzer *)

Min(a, b) == IF a <= b THEN a ELSE b
Max(a, b) == IF a >= b THEN a ELSE b

RECURSIVE SeqSum(_)
SeqSum(s) == IF s = <<>> THEN 0 ELSE Head(s) + SeqSum(Tail(s))

RECURSIVE SeqMin(_)
SeqMin(s) == IF Len(s) = 1 THEN s[1] ELSE Min(Head(s), SeqMin(Tail(s)))

RECURSIVE SeqMax(_)
SeqMax(s) == IF Len(s) = 1 THEN s[1] ELSE Max(Head(s), SeqMax(Tail(s)))

AbsSeq(s) == [j \in 1..Len(s) |-> Abs(s[j])]

EmptyError == ValueError("zero-size array to reduction operation")

IndexError == [exc |-> "IndexError", msg |-> "index -1 is out of bounds"]

\* np.min, np.max: ValueError on an empty array
min_value(data) ==
    IF data = <<>> THEN Raised("min_value", 0, EmptyError.exc, EmptyError.msg, 94)
    ELSE [Returned("min_value", 0, SeqMin(data)) EXCEPT !.line = 94]

abs_min_value(data) ==
    IF data = <<>> THEN Raised("abs_min_value", 0, EmptyError.exc, EmptyError.msg, 98)
    ELSE [Returned("abs_min_value", 0, SeqMin(AbsSeq(data))) EXCEPT !.line = 98]

max_value(data) ==
    IF data = <<>> THEN Raised("max_value", 0, EmptyError.exc, EmptyError.msg, 102)
    ELSE [Returned("max_value", 0, SeqMax(data)) EXCEPT !.line = 102]

abs_max_value(data) ==
    IF data = <<>> THEN Raised("abs_max_value", 0, EmptyError.exc, EmptyError.msg, 106)
    ELSE [Returned("abs_max_value", 0, SeqMax(AbsSeq(data))) EXCEPT !.line = 106]

\* the sum of the absolute values taken for the sum
summed_data_Abs(data) == SeqSum(AbsSeq(data))

\* line 110: np.sum(self.data)
summed_data(data) == SeqSum(data)

\* the index i put into s, indices in ascending order of their data values
RECURSIVE InsertIndex(_, _, _)
InsertIndex(data, s, i) ==
    IF s = <<>> THEN <<i>>
    ELSE IF data[i] < data[Head(s)] THEN <<i>> \o s
    ELSE <<Head(s)>> \o InsertIndex(data, Tail(s), i)

RECURSIVE SortIndices(_, _)
SortIndices(data, n) ==
    IF n = 0 THEN <<>> ELSE InsertIndex(data, SortIndices(data, n - 1), n)

\* np.argsort: indices that put the data in ascending order
argsort(data) == SortIndices(data, Len(data))

\* the walk left in ascending order
reversed_Identity(s) == s

\* line 138: reversed(sorted_indices)
reversed(s) == [j \in 1..Len(s) |-> s[Len(s) + 1 - j]]

\* current_sum >= summed_data() * coverage_percent / 100, without the division
ReachesTarget(current_sum, total, coverage_percent) ==
    100 * current_sum >= total * coverage_percent

\* the loop with the test of line 141 made before the addition of line 139
RECURSIVE Walk_TestFirst(_, _, _, _, _)
Walk_TestFirst(data, order, k, current_sum, coverage_percent) ==
    IF k > Len(order) THEN 0
    ELSE IF 100 * current_sum >= SeqSum(data) * coverage_percent /\ k > 1 THEN k
    ELSE Walk_TestFirst(data, order, k + 1, current_sum + data[order[k]],
                        coverage_percent)

\* lines 137-143: the position in the descending walk at which the running sum
\* first reaches the target, 0 when it never does
RECURSIVE Walk(_, _, _, _, _)
Walk(data, order, k, current_sum, coverage_percent) ==
    IF k > Len(order) THEN 0
    ELSE LET sum == current_sum + data[order[k]] IN
         IF ReachesTarget(sum, summed_data(data), coverage_percent) THEN k
         ELSE Walk(data, order, k + 1, sum, coverage_percent)

isosurface_threshold_value(data, coverage_percent) ==
    IF coverage_percent >= 100
    THEN [Returned("isosurface_threshold_value", coverage_percent, 0) EXCEPT !.line = 131]
    ELSE LET sorted_indices == argsort(data)
             order == reversed(sorted_indices)
             k == Walk(data, order, 1, 0, coverage_percent)
         IN  IF k > 0
             THEN [Returned("isosurface_threshold_value", coverage_percent,
                            data[order[k]]) EXCEPT !.line = 143]
             ELSE IF data = <<>>
             THEN Raised("isosurface_threshold_value", coverage_percent,
                         IndexError.exc, IndexError.msg, 145)
             ELSE [Returned("isosurface_threshold_value", coverage_percent,
                            data[sorted_indices[Len(data)]]) EXCEPT !.line = 145]

Query(result) ==
    /\ pc = "idle"
    /\ ref
    /\ ret' = result
    /\ UNCHANGED <<cube, ref, pc, nAtoms, parts, eof>>

MinValue == Query(min_value(cube.data))

AbsMinValue == Query(abs_min_value(cube.data))

MaxValue == Query(max_value(cube.data))

AbsMaxValue == Query(abs_max_value(cube.data))

IsosurfaceThresholdValue ==
    \E p \in Percents : Query(isosurface_threshold_value(cube.data, p))

---------------------------------------------------------------------------

Init ==
    /\ cube = NoAttrs
    /\ ref = FALSE
    /\ pc = "idle"
    /\ nAtoms = 0
    /\ parts = <<>>
    /\ eof = FALSE
    /\ ret = NoRet

Next ==
    \/ Construct
    \/ LoadFrom
    \/ ReadGridDef
    \/ ReadXAxis
    \/ ReadYAxis
    \/ ReadZAxis
    \/ ReadAtom
    \/ ReadData
    \/ MinValue
    \/ AbsMinValue
    \/ MaxValue
    \/ AbsMaxValue
    \/ IsosurfaceThresholdValue

Spec == Init /\ [][Next]_vars

---------------------------------------------------------------------------
(* Vocabulary of the properties *)

LoadOps == {"CubeFile", "load_from"}

\* a parse has ended, by returning or by raising
LoadDone == pc = "idle" /\ ret.op \in LoadOps

LoadOk == LoadDone /\ ret.kind = "return"

LoadFailed == LoadDone /\ ret.kind = "raise"

\* the parse failed while it handled the grid-definition line
GridDefFailed == LoadFailed /\ ret.line \in 32..41

\* a threshold query with coverage below 100 has ended
ThresholdDone ==
    /\ pc = "idle"
    /\ ref
    /\ ret.op = "isosurface_threshold_value"
    /\ ret.arg < 100

ThresholdReturned == ThresholdDone /\ ret.kind = "return"

Coverages == 0..99

Values(data) == {data[j] : j \in 1..Len(data)}

\* the sum of all data values that are >= v
RECURSIVE SumAtLeast(_, _)
SumAtLeast(data, v) ==
    IF data = <<>> THEN 0
    ELSE (IF Head(data) >= v THEN Head(data) ELSE 0) + SumAtLeast(Tail(data), v)

\* the values >= v sum to at least sum(data) * coverage / 100
Covers(data, v, coverage) == 100 * SumAtLeast(data, v) >= SeqSum(data) * coverage

NegativeFirst(toks) == Len(toks) >= 1 /\ IsNum(toks[1]) /\ toks[1].v < 0

NegativeIntFirst(toks) == NegativeFirst(toks) /\ IsIntLit(toks[1])

---------------------------------------------------------------------------
---------------------------------------------------------------------------
(* C2 as stated: whenever the grid-definition line has a negative first     *)
(* token, the parse fails with the DSET_IDs error and with no other error,  *)
(* whatever the rest of the line holds.                                     *)
C2_NegativeAlwaysDset ==
    /\ pc = "xaxis" => ~NegativeFirst(parts)
    /\ (GridDefFailed /\ NegativeFirst(ret.parts)) =>
           [exc |-> ret.exc, msg |-> ret.msg] = DsetError

(* C2 as amended: whenever the grid-definition line has 4 or 5 tokens and    *)
(* its first token is a negative integer literal, the parse fails with the   *)
(* DSET_IDs error and with no other error, whatever the other tokens hold.   *)
C2_NegativeIntDset ==
    /\ pc = "xaxis" => ~NegativeFirst(parts)
    /\ (GridDefFailed /\ NegativeIntFirst(ret.parts) /\ Len(ret.parts) \in {4, 5}) =>
           [exc |-> ret.exc, msg |-> ret.msg] = DsetError

\* a 5-token line "-1 1.0 1.0 1.0 x" was rejected with the DSET_IDs error
C2_Witness ==
    /\ GridDefFailed
    /\ NegativeIntFirst(ret.parts)
    /\ Len(ret.parts) = 5
    /\ ret.parts[5] = BadTok
    /\ ret.line = 35
    /\ ret.msg = DsetError.msg

---------------------------------------------------------------------------
(* C3: the parse gets past the grid-definition line only if it has 4 or 5   *)
(* tokens, past an axis line only if it has exactly 4, past an atom line    *)
(* only if it has exactly 5, and never past a line the stream ended before; *)
(* every field is taken from its token, and only                            *)
(* data_points_per_grid_point has a default, 1, used when the               *)
(* grid-definition line has 4 tokens.                                       *)
C3_FieldCounts ==
    /\ pc \notin {"idle", "grid"} => ~eof
    /\ pc = "xaxis" =>
        /\ Len(parts) \in {4, 5}
        /\ nAtoms = parts[1].v
        /\ cube.origin = <<parts[2].v, parts[3].v, parts[4].v>>
        /\ cube.data_points_per_grid_point = IF Len(parts) = 5 THEN parts[5].v ELSE 1
    /\ pc = "yaxis" =>
        /\ Len(parts) = 4
        /\ cube.x_grid_points = parts[1].v
        /\ cube.x_axis = <<parts[2].v, parts[3].v, parts[4].v>>
    /\ pc = "zaxis" =>
        /\ Len(parts) = 4
        /\ cube.y_grid_points = parts[1].v
        /\ cube.y_axis = <<parts[2].v, parts[3].v, parts[4].v>>
    /\ (pc \in {"atoms", "data"} /\ Len(cube.atoms) = 0) =>
        /\ Len(parts) = 4
        /\ cube.z_grid_points = parts[1].v
        /\ cube.z_axis = <<parts[2].v, parts[3].v, parts[4].v>>
    /\ (pc \in {"atoms", "data"} /\ Len(cube.atoms) > 0) =>
        /\ Len(parts) = 5
        /\ cube.atoms[Len(cube.atoms)] =
               Atom(parts[1].v, parts[2].v, <<parts[3].v, parts[4].v, parts[5].v>>)
    /\ pc = "atoms" => Len(cube.atoms) < nAtoms
    /\ pc = "data" => Len(cube.atoms) = nAtoms
    /\ LoadFailed =>
        /\ ret.line = 32 => Len(ret.parts) \notin {4, 5}
        /\ ret.line \in {46, 53, 60} => Len(ret.parts) # 4
        /\ ret.line = 72 => Len(ret.parts) # 5

\* the stream ended before a declared atom line and the parse failed there
C3_Witness ==
    /\ LoadFailed
    /\ ret.line = 72
    /\ ret.atEnd
    /\ ret.parts = <<>>

---------------------------------------------------------------------------
(* C4: a failed construction leaves no object, and the attributes of an     *)
(* object the caller holds never change: not by a load_from that fails, nor *)
(* in any other way.                                                        *)
C4_AllOrNothing ==
    [][/\ (pc' = "idle" /\ ret'.kind = "raise" /\ ~ref') => cube' = NoAttrs
       /\ ref => cube' = cube]_vars

---------------------------------------------------------------------------
(* C5: on a fixed grid, for coverages p1 >= p2 below 100 at which the       *)
(* threshold query returns, the threshold at p1 is <= the threshold at p2.  *)
C5_Monotone ==
    ThresholdReturned =>
        \A p \in Coverages :
            LET other == isosurface_threshold_value(cube.data, p) IN
            other.kind = "return" =>
                /\ p <= ret.arg => ret.val <= other.val
                /\ p >= ret.arg => ret.val >= other.val

\* the threshold at 99 percent is strictly below the threshold at 0 percent
C5_Witness ==
    /\ ThresholdReturned
    /\ ret.arg = 99
    /\ ret.val < isosurface_threshold_value(cube.data, 0).val

---------------------------------------------------------------------------
(* C6: a threshold query with coverage below 100 on a parsed grid returns,  *)
(* and what it returns is an element of the data.                           *)
C6_ThresholdIsDataValue ==
    ThresholdDone => (ret.kind = "return" /\ ret.val \in Values(cube.data))

---------------------------------------------------------------------------
(* C7 as stated: the threshold returned is the smallest data value v such   *)
(* that the data values >= v sum to at least the target.                    *)
C7_SmallestCovering ==
    ThresholdReturned =>
        /\ Covers(cube.data, ret.val, ret.arg)
        /\ \A v \in Values(cube.data) : Covers(cube.data, v, ret.arg) => ret.val <= v

(* C7 as amended: whenever some data value v is such that the data values   *)
(* >= v sum to at least the target, the threshold returned is the largest   *)
(* such v.                                                                  *)
C7_LargestCovering ==
    (ThresholdReturned /\ \E v \in Values(cube.data) : Covers(cube.data, v, ret.arg)) =>
        /\ Covers(cube.data, ret.val, ret.arg)
        /\ \A v \in Values(cube.data) : Covers(cube.data, v, ret.arg) => v <= ret.val

\* the walk went past the largest value: the threshold is a smaller one
C7_Witness ==
    /\ ThresholdReturned
    /\ ret.line = 143
    /\ ret.val < SeqMax(cube.data)
    /\ Covers(cube.data, ret.val, ret.arg)

---------------------------------------------------------------------------
(* C8: every successfully parsed grid has at least one data value.          *)
C8_DataNonEmpty == LoadOk => Len(cube.data) > 0

---------------------------------------------------------------------------
(* C9: failures from different causes never carry the same error kind with  *)
(* the same message.  The cause of a failure is read off the failing        *)
(* statement and the end of the stream.                                     *)
Causes ==
    {"grid_fields", "axis_fields", "atom_fields", "negative_atoms",
     "data_length", "end_of_stream"}

Cause(r) ==
    CASE r.line \in {32, 46, 53, 60, 72} /\ r.atEnd -> "end_of_stream"
      [] r.line = 32 -> "grid_fields"
      [] r.line \in {46, 53, 60} -> "axis_fields"
      [] r.line = 72 -> "atom_fields"
      [] r.line = 35 -> "negative_atoms"
      [] r.line = 89 -> "data_length"
      [] OTHER -> "other"

\* the errors the code raises for a cause
CauseErrors(c) ==
    CASE c = "grid_fields" -> {GridLenError}
      [] c = "axis_fields" -> {AxisLenError}
      [] c = "atom_fields" -> {AtomLenError}
      [] c = "negative_atoms" -> {DsetError}
      [] c = "data_length" -> {DataLenError}
      [] c = "end_of_stream" -> {GridLenError, AxisLenError, AtomLenError}
      [] OTHER -> {}

C9_Distinguishable ==
    (LoadFailed /\ Cause(ret) \in Causes) =>
        \A c \in Causes \ {Cause(ret)} :
            [exc |-> ret.exc, msg |-> ret.msg] \notin CauseErrors(c)

---------------------------------------------------------------------------
(* C10 as stated: on a non-empty grid and a coverage below 100 the walk     *)
(* reaches the target, so the fallback return after the loop is not taken.  *)
C10_NoFallback ==
    (ThresholdDone /\ cube.data # <<>>) => (ret.kind = "return" /\ ret.line = 143)

(* C10 as amended: on a non-empty grid whose data sum is not negative and a *)
(* coverage below 100 the walk reaches the target, so the fallback return   *)
(* after the loop is not taken.                                             *)
C10_NoFallbackNonNegativeSum ==
    (ThresholdDone /\ cube.data # <<>> /\ SeqSum(cube.data) >= 0) =>
        (ret.kind = "return" /\ ret.line = 143)

\* data with a negative value and a sum that is not negative: the walk
\* reached the target
C10_Witness ==
    /\ ThresholdDone
    /\ cube.data # <<>>
    /\ SeqMin(cube.data) < 0
    /\ SeqSum(cube.data) >= 0
    /\ ret.arg = 99
    /\ ret.line = 143

=============================================================================
